---- MODULE Spec2Model ----
(***************************************************************************)
(* A model of arcade/draw_commands.py: the texture loader and its cache,   *)
(* the Texture constructor, and the immediate-mode shape drawing calls     *)
(* with the submission routine _generic_draw_line_strip.                   *)
(*                                                                         *)
(* Python objects live in `heap` (a Texture's identity is its index), the  *)
(* module-level dict load_texture.texture_cache is `texture_cache`, the    *)
(* OpenGL context is `gl`.  `result` is what the last call handed back to  *)
(* its caller: its arguments, the value returned or the exception raised,  *)
(* and the collaborator calls (PIL, OpenGL, shader) it made, in order.     *)
(* `loaded` is a history variable: the Texture each load_texture argument  *)
(* tuple returned the first time it succeeded.  `sprites` holds the Sprite *)
(* and SpriteList objects that Texture.draw makes (identity = index).      *)
(* `refused` is a history variable too: the error each load_texture        *)
(* argument tuple raised the first time it failed, kept by the calls of    *)
(* RetrySpec.                                                              *)
(***************************************************************************)
EXTENDS Integers, Sequences, FiniteSets, TLC

VARIABLES texture_cache, heap, sprites, gl_names, loaded, refused, gl, result

vars == <<texture_cache, heap, sprites, gl_names, loaded, refused, gl, result>>

(***************************************************************************)
(* Bounds of the model.                                                    *)
(***************************************************************************)
\* Texture objects constructed in one behaviour.
MaxTextures == 2
\* Longest image_location_list handed to load_textures.
MaxLocations == 2

(***************************************************************************)
(* Python values.                                                          *)
(***************************************************************************)
None == [none |-> TRUE]

NoError == [kind |-> "none", which |-> "", axis |-> "", value |-> 0, limit |-> 0]

\* ValueError raised by the crop checks; `which` is "starting" or "ending",
\* value and limit are the two numbers formatted into the message.
CropError(which, axis, value, limit) ==
    [kind |-> "CropOutOfBounds", which |-> which, axis |-> axis,
     value |-> value, limit |-> limit]

\* ValueError raised by Texture.__init__; axis is "Height" or "Width".
DimensionError(axis, value) ==
    [kind |-> "InvalidDimension", which |-> "less than zero", axis |-> axis,
     value |-> value, limit |-> 0]

\* ValueError("Texture has a width of {}, must be > 0.") of load_textures.
WidthError(value) ==
    [kind |-> "InvalidWidth", which |-> "must be > 0", axis |-> "width",
     value |-> value, limit |-> 0]

(***************************************************************************)
(* str.format on the values the cache key is built from.                   *)
(***************************************************************************)
Digit(d) == <<"0", "1", "2", "3", "4", "5", "6", "7", "8", "9">>[d + 1]

RECURSIVE FormatNat(_)
FormatNat(n) ==
    IF n < 10 THEN Digit(n) ELSE FormatNat(n \div 10) \o Digit(n % 10)

FormatInt(n) == IF n < 0 THEN "-" \o FormatNat(-n) ELSE FormatNat(n)

FormatBool(b) == IF b THEN "True" ELSE "False"

(***************************************************************************)
(* The image files on disk: PIL.Image.open(file_name).size.                *)
(***************************************************************************)
FileNames == {"a.png"}

source_image_size(file_name) ==
    CASE file_name = "a.png" -> [width |-> 12, height |-> 8]

(***************************************************************************)
(* Texture.__init__                                                        *)
(***************************************************************************)
TextureInit(texture_id, width, height, file_name) ==
    IF height < 0 THEN [ok |-> FALSE, err |-> DimensionError("Height", height)]
    ELSE IF width < 0 THEN [ok |-> FALSE, err |-> DimensionError("Width", width)]
    ELSE [ok |-> TRUE, err |-> NoError,
          obj |-> [texture_id |-> texture_id, width |-> width, height |-> height,
                   texture_name |-> file_name,
                   _sprite |-> None, _sprite_list |-> None]]

\* texture_name is a str in load_texture and a location list in load_textures.
NameOfFile(file_name) == [str |-> file_name, location |-> <<>>]
NameOfLocation(image_location) == [str |-> "", location |-> image_location]

(***************************************************************************)
(* load_texture                                                            *)
(***************************************************************************)
\* "{}{}{}{}{}{}{}{}".format(file_name, x, y, width, height, scale, flipped,
\* mirrored): the eight fields are formatted one after the other.
cache_name(file_name, x, y, width, height, scale, flipped, mirrored) ==
    file_name \o FormatInt(x) \o FormatInt(y) \o FormatInt(width)
        \o FormatInt(height) \o FormatInt(scale)
        \o FormatBool(flipped) \o FormatBool(mirrored)

CacheNameOf(a) ==
    cache_name(a.file_name, a.x, a.y, a.width, a.height, a.scale,
               a.flipped, a.mirrored)

\* The four checks of a crop rectangle against the source image, in the
\* order of the code; NoError when all pass.
crop_check(x, y, width, height, source_image_width, source_image_height) ==
    IF x > source_image_width
    THEN CropError("starting", "x", x, source_image_width)
    ELSE IF y > source_image_height
    THEN CropError("starting", "y", y, source_image_height)
    ELSE IF x + width > source_image_width
    THEN CropError("ending", "x", x + width, source_image_width)
    ELSE IF y + height > source_image_height
    THEN CropError("ending", "y", y + height, source_image_height)
    ELSE NoError

\* The glGenTextures .. glTexParameteri block that both loaders run.
GlTextureSetup ==
    <<"glGenTextures", "glBindTexture", "glPixelStorei",
      "glTexParameterf(WRAP_S,REPEAT)", "glTexParameterf(WRAP_T,REPEAT)",
      "glTexParameteri(MAG_FILTER,LINEAR)",
      "glTexParameteri(MIN_FILTER,LINEAR_MIPMAP_LINEAR)">>

FlipCalls(mirrored, flipped) ==
    (IF mirrored THEN <<"ImageOps.mirror">> ELSE <<>>)
        \o (IF flipped THEN <<"ImageOps.flip">> ELSE <<>>)

\* `cache_name in load_texture.texture_cache`; the first definition is the
\* faulty variant that never finds the entry.
cache_lookup_never(cache, key) == FALSE

cache_lookup(cache, key) == key \in DOMAIN cache

\* load_texture.texture_cache[cache_name] = result
cache_store(cache, key, obj) ==
    [k \in DOMAIN cache \cup {key} |-> IF k = key THEN obj ELSE cache[k]]

\* One call of load_texture(a.file_name, a.x, .., a.scale) in the state
\* (cache, hp, names): the state it leaves and what it returns or raises.
load_texture(a, cache, hp, names) ==
    LET key == CacheNameOf(a)
        size == source_image_size(a.file_name)
        cropped == a.x # 0 \/ a.y # 0 \/ a.width # 0 \/ a.height # 0
        check == IF cropped
                 THEN crop_check(a.x, a.y, a.width, a.height,
                                 size.width, size.height)
                 ELSE NoError
        image_width == IF cropped THEN a.width ELSE size.width
        image_height == IF cropped THEN a.height ELSE size.height
        texture == names + 1
        made == TextureInit(texture, image_width * a.scale,
                            image_height * a.scale, NameOfFile(a.file_name))
        decode == <<"PIL.Image.open">>
                      \o (IF cropped THEN <<"Image.crop">> ELSE <<>>)
                      \o FlipCalls(a.mirrored, a.flipped)
    IN  IF cache_lookup(cache, key)
        THEN [cache |-> cache, heap |-> hp, names |-> names, ok |-> TRUE,
              err |-> NoError, ret |-> <<cache[key]>>, calls |-> <<>>]
        ELSE IF check # NoError
        THEN [cache |-> cache, heap |-> hp, names |-> names, ok |-> FALSE,
              err |-> check, ret |-> <<>>, calls |-> <<"PIL.Image.open">>]
        ELSE IF ~made.ok
        THEN [cache |-> cache, heap |-> hp, names |-> texture, ok |-> FALSE,
              err |-> made.err, ret |-> <<>>,
              calls |-> decode \o GlTextureSetup]
        ELSE [cache |-> cache_store(cache, key, Len(hp) + 1),
              heap |-> Append(hp, made.obj), names |-> texture, ok |-> TRUE,
              err |-> NoError, ret |-> <<Len(hp) + 1>>,
              calls |-> decode \o GlTextureSetup]

(***************************************************************************)
(* load_textures                                                           *)
(***************************************************************************)
\* The checks at the top of the loop body, for one image_location.
location_check(x, y, width, height, source_image_width, source_image_height) ==
    IF width <= 0
    THEN WidthError(width)
    ELSE IF x > source_image_width
    THEN CropError("starting", "x", x, source_image_width)
    ELSE IF y > source_image_height
    THEN CropError("starting", "y", y, source_image_height)
    ELSE IF x + width > source_image_width
    THEN CropError("ending", "x", x + width, source_image_width)
    ELSE IF y + height > source_image_height
    THEN CropError("ending", "y", y + height, source_image_height)
    ELSE NoError

\* texture_info_list.append(Texture(..)); the first definition is the faulty
\* variant that puts the new texture in front.
texture_info_prepend(texture_info_list, t) == <<t>> \o texture_info_list

texture_info_append(texture_info_list, t) == Append(texture_info_list, t)

\* The for loop over image_location_list from position i on; st carries the
\* heap, the GL names handed out, texture_info_list and the calls made so far.
RECURSIVE load_textures_loop(_, _, _, _)
load_textures_loop(a, size, i, st) ==
    IF i > Len(a.image_location_list)
    THEN [heap |-> st.heap, names |-> st.names, ok |-> TRUE, err |-> NoError,
          ret |-> st.texture_info_list, calls |-> st.calls]
    ELSE
      LET image_location == a.image_location_list[i]
          x == image_location[1]
          y == image_location[2]
          width == image_location[3]
          height == image_location[4]
          check == location_check(x, y, width, height, size.width, size.height)
          texture == st.names + 1
          made == TextureInit(texture, width, height,
                              NameOfLocation(image_location))
          calls == st.calls \o <<"Image.crop">>
                       \o FlipCalls(a.mirrored, a.flipped) \o GlTextureSetup
      IN  IF check # NoError
          THEN [heap |-> st.heap, names |-> st.names, ok |-> FALSE,
                err |-> check, ret |-> <<>>, calls |-> st.calls]
          ELSE IF ~made.ok
          THEN [heap |-> st.heap, names |-> texture, ok |-> FALSE,
                err |-> made.err, ret |-> <<>>, calls |-> calls]
          ELSE load_textures_loop(a, size, i + 1,
                   [heap |-> Append(st.heap, made.obj), names |-> texture,
                    texture_info_list |->
                        texture_info_append(st.texture_info_list,
                                            Len(st.heap) + 1),
                    calls |-> calls])

\* One call of load_textures(a.file_name, a.image_location_list, a.mirrored,
\* a.flipped, a.scale); the cache is neither read nor written.
load_textures(a, cache, hp, names) ==
    LET r == load_textures_loop(a, source_image_size(a.file_name), 1,
                 [heap |-> hp, names |-> names, texture_info_list |-> <<>>,
                  calls |-> <<"PIL.Image.open">>])
    IN  [cache |-> cache, heap |-> r.heap, names |-> r.names, ok |-> r.ok,
         err |-> r.err, ret |-> r.ret, calls |-> r.calls]

(***************************************************************************)
(* The calls of the texture functions and their arguments.                 *)
(***************************************************************************)
\* Crop rectangles (x, y, width, height) tried against the 12 x 8 image:
\* the whole image, rectangles on and across each bound, one with a
\* negative origin, and two whose decimal digits run together alike.
CropRects ==
    { <<0, 0, 0, 0>>, <<0, 0, 12, 8>>, <<11, 1, 1, 1>>, <<1, 11, 1, 1>>,
      <<-1, 0, 1, 1>>, <<13, 9, 1, 1>>, <<1, 1, 12, 8>>, <<12, 0, 1, 1>> }

\* Rectangles also loaded mirrored, flipped and at scale 2.
ScaledRects == { <<0, 0, 0, 0>>, <<11, 1, 1, 1>> }

LoadArgs(f, r, mirrored, flipped, scale) ==
    [file_name |-> f, x |-> r[1], y |-> r[2], width |-> r[3],
     height |-> r[4], mirrored |-> mirrored, flipped |-> flipped,
     scale |-> scale]

LoadTextureArgs ==
    { LoadArgs(f, r, FALSE, FALSE, 1) : f \in FileNames, r \in CropRects }
        \cup { LoadArgs(f, r, TRUE, TRUE, 2) : f \in FileNames, r \in ScaledRects }

\* image_location_list entries: two that pass, one that ends past the image;
\* LocationLists adds four lists of one entry: the all-zero rectangle, one
\* that starts past the image, one of height 0 and one of width 0.
LocationRects == { <<0, 0, 12, 8>>, <<11, 1, 1, 1>>, <<1, 1, 12, 8>> }

LocationLists ==
    UNION { [1..n -> LocationRects] : n \in 0..MaxLocations }
        \cup { << <<0, 0, 0, 0>> >>, << <<13, 9, 1, 1>> >>, << <<1, 1, 2, 0>> >>,
               << <<1, 1, 0, 1>> >> }

LoadTexturesArgs ==
    { [file_name |-> f, image_location_list |-> l, mirrored |-> TRUE,
       flipped |-> FALSE, scale |-> 2] : f \in FileNames, l \in LocationLists }

TextureDimensions == {-1, 0, 3}

TextureIds == {0, 7}

GlDefault ==
    [line_width |-> 1, point_size |-> 1, blend |-> FALSE,
     blend_func |-> <<"GL_ONE", "GL_ZERO">>, line_smooth |-> FALSE,
     line_smooth_hint |-> "GL_DONT_CARE", polygon_smooth_hint |-> "GL_DONT_CARE",
     vertex_array |-> 0]

NoCall ==
    [op |-> "none", args |-> <<>>, ok |-> TRUE, err |-> NoError, ret |-> <<>>,
     calls |-> <<>>, geometry |-> <<>>, submitted |-> <<>>]

Init ==
    /\ texture_cache = <<>>
    /\ heap = <<>>
    /\ sprites = <<>>
    /\ gl_names = 0
    /\ loaded = <<>>
    /\ refused = <<>>
    /\ gl = GlDefault
    /\ result = NoCall

\* The history of first successful returns of load_texture.
Remember(a, r) ==
    IF r.ok /\ a \notin DOMAIN loaded
    THEN [t \in DOMAIN loaded \cup {a} |-> IF t = a THEN r.ret[1] ELSE loaded[t]]
    ELSE loaded

LoadTexture ==
    \E a \in LoadTextureArgs :
        LET r == load_texture(a, texture_cache, heap, gl_names)
        IN  /\ Len(r.heap) <= MaxTextures
            /\ texture_cache' = r.cache
            /\ heap' = r.heap
            /\ gl_names' = r.names
            /\ loaded' = Remember(a, r)
            /\ result' = [op |-> "load_texture", args |-> a, ok |-> r.ok,
                          err |-> r.err, ret |-> r.ret, calls |-> r.calls,
                          geometry |-> <<>>, submitted |-> <<>>]
            /\ UNCHANGED <<sprites, refused, gl>>

LoadTextures ==
    \E a \in LoadTexturesArgs :
        LET r == load_textures(a, texture_cache, heap, gl_names)
        IN  /\ Len(r.heap) <= MaxTextures
            /\ texture_cache' = r.cache
            /\ heap' = r.heap
            /\ gl_names' = r.names
            /\ result' = [op |-> "load_textures", args |-> a, ok |-> r.ok,
                          err |-> r.err, ret |-> r.ret, calls |-> r.calls,
                          geometry |-> <<>>, submitted |-> <<>>]
            /\ UNCHANGED <<sprites, loaded, refused, gl>>

\* Texture(texture_id, width, height, file_name) called directly.
NewTexture ==
    \E id \in TextureIds, w \in TextureDimensions, h \in TextureDimensions,
       f \in FileNames :
        LET made == TextureInit(id, w, h, NameOfFile(f))
        IN  /\ Len(heap) + (IF made.ok THEN 1 ELSE 0) <= MaxTextures
            /\ heap' = IF made.ok THEN Append(heap, made.obj) ELSE heap
            /\ result' = [op |-> "Texture",
                          args |-> [texture_id |-> id, width |-> w,
                                    height |-> h, file_name |-> f],
                          ok |-> made.ok, err |-> made.err,
                          ret |-> IF made.ok THEN <<Len(heap) + 1>> ELSE <<>>,
                          calls |-> <<>>, geometry |-> <<>>,
                          submitted |-> <<>>]
            /\ UNCHANGED <<texture_cache, sprites, gl_names, loaded, refused, gl>>

LoaderNext == LoadTexture \/ LoadTextures

LoaderSpec == Init /\ [][LoaderNext]_vars

ConstructNext == NewTexture

ConstructSpec == Init /\ [][ConstructNext]_vars

(***************************************************************************)
(* load_texture called again after it raised.                              *)
(***************************************************************************)
\* Crop rectangles of the repeated calls: the whole image, one that loads,
\* and three that lie across a bound of the 12 x 8 image.
RetryRects ==
    { <<0, 0, 0, 0>>, <<11, 1, 1, 1>>, <<1, 11, 1, 1>>, <<13, 9, 1, 1>>,
      <<1, 1, 12, 8>> }

RetryArgs == { LoadArgs(f, r, FALSE, FALSE, 1) : f \in FileNames, r \in RetryRects }

\* The history of first failures of load_texture.
Refuse(a, r) ==
    IF ~r.ok /\ a \notin DOMAIN refused
    THEN [t \in DOMAIN refused \cup {a} |-> IF t = a THEN r.err ELSE refused[t]]
    ELSE refused

\* load_texture as in LoadTexture, with the failures remembered as well.
LoadTextureAgain ==
    \E a \in RetryArgs :
        LET r == load_texture(a, texture_cache, heap, gl_names)
        IN  /\ Len(r.heap) <= MaxTextures
            /\ texture_cache' = r.cache
            /\ heap' = r.heap
            /\ gl_names' = r.names
            /\ loaded' = Remember(a, r)
            /\ refused' = Refuse(a, r)
            /\ result' = [op |-> "load_texture", args |-> a, ok |-> r.ok,
                          err |-> r.err, ret |-> r.ret, calls |-> r.calls,
                          geometry |-> <<>>, submitted |-> <<>>]
            /\ UNCHANGED <<sprites, gl>>

RetryNext == LoadTextureAgain

RetrySpec == Init /\ [][RetryNext]_vars

(***************************************************************************)
(* Texture.draw                                                            *)
(***************************************************************************)
\* A reference to the object sprites[index].
Ref(index) == [ref |-> index]

\* Python values of parameters that are handed a bool or an int: the value
\* with its type (True and 1 are different objects).
PyBool(b) == [type |-> "bool", value |-> IF b THEN 1 ELSE 0]

PyInt(n) == [type |-> "int", value |-> n]

\* A faulty variant of the test that finds no proxy on any call.
has_no_sprite_ever(texture) == TRUE

\* `if self._sprite == None`
has_no_sprite(texture) == texture._sprite = None

\* self.draw(center_x, .., repeat_count_y) on the Texture hp[self]: the heap
\* and the sprite objects it leaves, the calls it makes on arcade.sprite and
\* arcade.sprite_list, and what the list held when it was drawn.  alpha,
\* transparent and the repeat counts are not used by the method; `received`
\* is the value each parameter of the method was bound to.
Texture_draw(hp, sp, self, center_x, center_y, width, height, angle, alpha, transparent, repeat_count_x, repeat_count_y) ==
    LET new == has_no_sprite(hp[self])
        sprite == IF new THEN Len(sp) + 1 ELSE hp[self]._sprite.ref
        sprite_list == IF new THEN Len(sp) + 2 ELSE hp[self]._sprite_list.ref
        hp1 == IF new
               THEN [hp EXCEPT ![self]._sprite = Ref(sprite),
                               ![self]._sprite_list = Ref(sprite_list)]
               ELSE hp
        sp1 == IF new
               THEN sp \o << [type |-> "Sprite", texture |-> self,
                              textures |-> <<self>>, center_x |-> 0,
                              center_y |-> 0, width |-> 0, height |-> 0,
                              angle |-> 0, sprite_list |-> <<>>],
                             [type |-> "SpriteList", texture |-> 0,
                              textures |-> <<>>, center_x |-> 0,
                              center_y |-> 0, width |-> 0, height |-> 0,
                              angle |-> 0, sprite_list |-> <<sprite>>] >>
               ELSE sp
        sp2 == [sp1 EXCEPT ![sprite].center_x = center_x,
                           ![sprite].center_y = center_y,
                           ![sprite].width = width,
                           ![sprite].height = height,
                           ![sprite].angle = angle]
    IN  [heap |-> hp1, sprites |-> sp2,
         received |-> [center_x |-> center_x, center_y |-> center_y,
                       width |-> width, height |-> height, angle |-> angle,
                       alpha |-> alpha, transparent |-> transparent,
                       repeat_count_x |-> repeat_count_x,
                       repeat_count_y |-> repeat_count_y],
         calls |-> (IF new
                    THEN <<"Sprite", "SpriteList", "SpriteList.append">>
                    ELSE <<>>) \o <<"SpriteList.draw">>,
         submitted |-> << [sprite_list |-> sprite_list,
                           sprites |-> [i \in 1..Len(sp2[sprite_list].sprite_list) |->
                                           sp2[sp2[sprite_list].sprite_list[i]]]] >>]

\* The textures of a program that has constructed MaxTextures of them and
\* drawn none: Texture(1, 3, 3, "a.png"), Texture(2, 3, 3, "a.png"), ..
ConstructedTextures ==
    [i \in 1..MaxTextures |-> TextureInit(i, 3, 3, NameOfFile("a.png")).obj]

ProxyInit ==
    /\ texture_cache = <<>>
    /\ heap = ConstructedTextures
    /\ sprites = <<>>
    /\ gl_names = 0
    /\ loaded = <<>>
    /\ refused = <<>>
    /\ gl = GlDefault
    /\ result = NoCall

\* texture.draw(center_x, center_y, width, height, angle) on a Texture of the
\* heap.
TextureDraw ==
    \E self \in 1..Len(heap), c \in {<<10, 10>>, <<0, -3>>}, angle \in {0, 30, 90} :
        LET r == Texture_draw(heap, sprites, self, c[1], c[2], 4, 7, angle, 1,
                              PyBool(TRUE), PyInt(1), PyInt(1))
        IN  /\ heap' = r.heap
            /\ sprites' = r.sprites
            /\ result' = [op |-> "Texture.draw",
                          args |-> [self |-> self, center_x |-> c[1],
                                    center_y |-> c[2], width |-> 4,
                                    height |-> 7, angle |-> angle],
                          ok |-> TRUE, err |-> NoError, ret |-> <<>>,
                          calls |-> r.calls, geometry |-> <<>>,
                          submitted |-> r.submitted]
            /\ UNCHANGED <<texture_cache, gl_names, loaded, refused, gl>>

ProxyNext == TextureDraw

ProxySpec == ProxyInit /\ [][ProxyNext]_vars

(***************************************************************************)
(* Numbers of the drawing functions.  Python floats are kept in fixed      *)
(* point: a coordinate, a size or a trigonometric value v is the integer   *)
(* v * Scale.                                                              *)
(***************************************************************************)
Scale == 10 * 10 * 10

Fx(n) == n * Scale

\* a * b of two fixed-point numbers, to the nearest fixed-point number.
Mul(a, b) == (2 * a * b + Scale) \div (2 * Scale)

\* v // 2 (Python floor division, on ints and floats alike).
FloorDiv2(v) == (v \div (2 * Scale)) * Scale

\* v / 2 (true division).
Half(v) == v \div 2

\* math.cos(theta) and math.sin(theta) for theta = 2.0 * 3.1415926 * segment
\* / num_segments, segment in 0 .. num_segments - 1, num_segments in 1 .. 6.
CosTable ==
    << <<1000>>,
       <<1000, -1000>>,
       <<1000, -500, -500>>,
       <<1000, 0, -1000, 0>>,
       <<1000, 309, -809, -809, 309>>,
       <<1000, 500, -500, -1000, -500, 500>> >>

SinTable ==
    << <<0>>,
       <<0, 0>>,
       <<0, 866, -866>>,
       <<0, 1000, 0, -1000>>,
       <<0, 951, 588, -588, -951>>,
       <<0, 866, 866, 0, -866, -866>> >>

\* num_segments when the caller gives none: `num_segments: int=128`.
default_num_segments == 128

\* The same for num_segments = default_num_segments.
CosTableDefault ==
    <<
      1000, 999, 995, 989, 981, 970, 957, 942, 924, 904, 882, 858, 831,
      803, 773, 741, 707, 672, 634, 596, 556, 514, 471, 428, 383, 337, 290,
      243, 195, 147, 98, 49, 0, -49, -98, -147, -195, -243, -290, -337,
      -383, -428, -471, -514, -556, -596, -634, -672, -707, -741, -773,
      -803, -831, -858, -882, -904, -924, -942, -957, -970, -981, -989,
      -995, -999, -1000, -999, -995, -989, -981, -970, -957, -942, -924,
      -904, -882, -858, -831, -803, -773, -741, -707, -672, -634, -596,
      -556, -514, -471, -428, -383, -337, -290, -243, -195, -147, -98, -49,
      0, 49, 98, 147, 195, 243, 290, 337, 383, 428, 471, 514, 556, 596,
      634, 672, 707, 741, 773, 803, 831, 858, 882, 904, 924, 942, 957, 970,
      981, 989, 995, 999
    >>

SinTableDefault ==
    <<
      0, 49, 98, 147, 195, 243, 290, 337, 383, 428, 471, 514, 556, 596,
      634, 672, 707, 741, 773, 803, 831, 858, 882, 904, 924, 942, 957, 970,
      981, 989, 995, 999, 1000, 999, 995, 989, 981, 970, 957, 942, 924,
      904, 882, 858, 831, 803, 773, 741, 707, 672, 634, 596, 556, 514, 471,
      428, 383, 337, 290, 243, 195, 147, 98, 49, 0, -49, -98, -147, -195,
      -243, -290, -337, -383, -428, -471, -514, -556, -596, -634, -672,
      -707, -741, -773, -803, -831, -858, -882, -904, -924, -942, -957,
      -970, -981, -989, -995, -999, -1000, -999, -995, -989, -981, -970,
      -957, -942, -924, -904, -882, -858, -831, -803, -773, -741, -707,
      -672, -634, -596, -556, -514, -471, -428, -383, -337, -290, -243,
      -195, -147, -98, -49
    >>

cos_theta(segment, num_segments) ==
    IF num_segments = default_num_segments
    THEN CosTableDefault[segment + 1]
    ELSE CosTable[num_segments][segment + 1]

sin_theta(segment, num_segments) ==
    IF num_segments = default_num_segments
    THEN SinTableDefault[segment + 1]
    ELSE SinTable[num_segments][segment + 1]

\* math.cos(math.radians(angle)) and math.sin(math.radians(angle)).
cos_radians(angle) ==
    CASE angle = 0 -> 1000 [] angle = 30 -> 866 [] angle = 90 -> 0
      [] angle = 180 -> -1000

sin_radians(angle) ==
    CASE angle = 0 -> 0 [] angle = 30 -> 500 [] angle = 90 -> 1000
      [] angle = 180 -> 0

\* The number of decimal places rotate_point rounds to.
rounding_precision == 2

\* A faulty variant of the rounding that drops the digits after the second
\* decimal place.
round_down_to_precision(v) ==
    LET unit == (Scale * Scale) \div (10 ^ rounding_precision)
    IN  (v \div unit) * (Scale \div (10 ^ rounding_precision))

\* round(v, rounding_precision) of a number v held with twice the fixed-point
\* digits; Python rounds a tie to the even neighbour.
round_to_precision(v) ==
    LET unit == (Scale * Scale) \div (10 ^ rounding_precision)
        q == v \div unit
        r == v % unit
        n == IF 2 * r < unit THEN q
             ELSE IF 2 * r > unit THEN q + 1
             ELSE IF q % 2 = 0 THEN q ELSE q + 1
    IN  n * (Scale \div (10 ^ rounding_precision))

rotate_point(x, y, cx, cy, angle) ==
    LET temp_x == x - cx
        temp_y == y - cy
        rotated_x == temp_x * cos_radians(angle) - temp_y * sin_radians(angle)
        rotated_y == temp_x * sin_radians(angle) + temp_y * cos_radians(angle)
    IN  << round_to_precision(rotated_x + cx * Scale),
           round_to_precision(rotated_y + cy * Scale) >>

(***************************************************************************)
(* Colors                                                                  *)
(***************************************************************************)
ColorError ==
    [kind |-> "InvalidColorFormat", which |-> "This isn't a 3 or 4 byte color",
     axis |-> "", value |-> 0, limit |-> 0]

\* A faulty variant of the conversion that fills a short color up with 255
\* and cuts a long one.
get_four_byte_color_padding(color) ==
    [ok |-> TRUE, err |-> NoError,
     color |-> [i \in 1..4 |-> IF i <= Len(color) THEN color[i] ELSE 255]]

\* A faulty variant of the conversion that makes every color opaque.
get_four_byte_color_opaque(color) ==
    IF Len(color) \in {3, 4}
    THEN [ok |-> TRUE, err |-> NoError,
          color |-> <<color[1], color[2], color[3], 255>>]
    ELSE [ok |-> FALSE, err |-> ColorError]

get_four_byte_color(color) ==
    IF Len(color) = 4 THEN [ok |-> TRUE, err |-> NoError, color |-> color]
    ELSE IF Len(color) = 3
    THEN [ok |-> TRUE, err |-> NoError,
          color |-> <<color[1], color[2], color[3], 255>>]
    ELSE [ok |-> FALSE, err |-> ColorError]

\* Most channels of a color handed to get_four_byte_color.
MaxChannels == 6

\* The values of a channel: the two ends of a byte.
Channels == {0, 255}

\* The colors get_four_byte_color is called with: every sequence of channels
\* of length 0 .. MaxChannels.
ColorInputs ==
    UNION { [1..n -> Channels] : n \in 0..MaxChannels }

\* get_four_byte_color(color) called directly.
GetFourByteColor ==
    \E color \in ColorInputs :
        LET four == get_four_byte_color(color)
        IN  /\ result' = [op |-> "get_four_byte_color",
                          args |-> [color |-> color],
                          ok |-> four.ok, err |-> four.err,
                          ret |-> IF four.ok THEN <<four.color>> ELSE <<>>,
                          calls |-> <<>>, geometry |-> <<>>,
                          submitted |-> <<>>]
            /\ UNCHANGED <<texture_cache, heap, sprites, gl_names, loaded, refused, gl>>

ColorNext == GetFourByteColor

ColorSpec == Init /\ [][ColorNext]_vars

(***************************************************************************)
(* _generic_draw_line_strip                                                *)
(***************************************************************************)
\* pyglet raises GLException out of the OpenGL call that failed; `which` is
\* the step of the submission that raised.
GLError(step) ==
    [kind |-> "GLException", which |-> step, axis |-> "", value |-> 0,
     limit |-> 0]

\* The steps inside `with vao:` that the OpenGL driver can fail, and "none".
GlErrors == {"none", "get_projection", "glLineWidth", "vao.render"}

\* VertexArray.__enter__ and __exit__ of arcade.shader: the vertex array of
\* the submission becomes the bound one, and on exit none is bound.
vao_enter(g) == [g EXCEPT !.vertex_array = 1]

vao_exit(g) == [g EXCEPT !.vertex_array = 0]

\* A faulty variant of leaving the block that unbinds only when the block
\* ran to its end: `vao.__enter__()` .. `vao.__exit__()` without `with`.
leave_with_block_unless_raised(g, raised) == IF raised THEN g ELSE vao_exit(g)

\* `with vao:` runs vao.__exit__ when the block ends and when it raises.
leave_with_block(g, raised) == vao_exit(g)

\* A faulty variant of the state configuration that leaves the point size.
gl_configure_line_only(g, line_width) ==
    [g EXCEPT !.line_width = line_width,
              !.blend = TRUE,
              !.blend_func = <<"GL_SRC_ALPHA", "GL_ONE_MINUS_SRC_ALPHA">>,
              !.line_smooth = TRUE, !.line_smooth_hint = "GL_NICEST",
              !.polygon_smooth_hint = "GL_NICEST"]

\* The OpenGL context after the glLineWidth .. glHint calls of one submission.
gl_configure(g, line_width) ==
    [g EXCEPT !.line_width = line_width, !.point_size = line_width,
              !.blend = TRUE,
              !.blend_func = <<"GL_SRC_ALPHA", "GL_ONE_MINUS_SRC_ALPHA">>,
              !.line_smooth = TRUE, !.line_smooth_hint = "GL_NICEST",
              !.polygon_smooth_hint = "GL_NICEST"]

GlStateCalls ==
    <<"glLineWidth", "glPointSize", "glEnable(GL_BLEND)", "glBlendFunc",
      "glEnable(GL_LINE_SMOOTH)", "glHint(GL_LINE_SMOOTH_HINT)",
      "glHint(GL_POLYGON_SMOOTH_HINT)">>

\* The calls up to `with vao:`.
UploadCalls ==
    <<"shader.program", "shader.buffer", "shader.vertex_array",
      "vao.__enter__">>

\* A faulty variant of the block that renders before it configures the
\* state.
BlockCallsRenderFirst ==
    <<"get_projection", "vao.render">> \o GlStateCalls

\* The calls inside `with vao:` when none of them raises.
BlockCalls ==
    <<"get_projection">> \o GlStateCalls \o <<"vao.render">>

\* One submission in the context g, where the OpenGL driver fails the step
\* gl_error ("none": no step): the calls made, the draw call issued (if any)
\* and the OpenGL context left behind.
generic_draw_line_strip_gl(point_list, color, line_width, mode, g, gl_error) ==
    LET four == get_four_byte_color(color)
        bound == vao_enter(g)
        Raised(step, calls_in_block, g_in_block) ==
            [ok |-> FALSE, err |-> GLError(step),
             calls |-> UploadCalls \o calls_in_block \o <<"vao.__exit__">>,
             submitted |-> <<>>, gl |-> leave_with_block(g_in_block, TRUE)]
    IN  IF ~four.ok
        THEN [ok |-> FALSE, err |-> four.err, calls |-> <<"shader.program">>,
              submitted |-> <<>>, gl |-> g]
        ELSE IF gl_error = "get_projection"
        THEN Raised(gl_error, <<"get_projection">>, bound)
        ELSE IF gl_error = "glLineWidth"
        THEN Raised(gl_error, <<"get_projection", "glLineWidth">>, bound)
        ELSE IF gl_error = "vao.render"
        THEN Raised(gl_error, BlockCalls, gl_configure(bound, line_width))
        ELSE [ok |-> TRUE, err |-> NoError,
              calls |-> UploadCalls \o BlockCalls \o <<"vao.__exit__">>,
              submitted |-> << [vertices |-> point_list, color |-> four.color,
                                line_width |-> line_width, mode |-> mode] >>,
              gl |-> leave_with_block(gl_configure(bound, line_width), FALSE)]

\* One submission that the OpenGL driver does not fail.
generic_draw_line_strip(point_list, color, line_width, mode, g) ==
    generic_draw_line_strip_gl(point_list, color, line_width, mode, g, "none")

\* What a shape function hands back: the list it tessellated and the
\* outcome of its submission.
Drawn(point_list, sub) ==
    [ok |-> sub.ok, err |-> sub.err, calls |-> sub.calls,
     geometry |-> <<point_list>>, submitted |-> sub.submitted, gl |-> sub.gl]

\* A shape function that raised before tessellating anything.
Refused(err, g) ==
    [ok |-> FALSE, err |-> err, calls |-> <<>>, geometry |-> <<>>,
     submitted |-> <<>>, gl |-> g]

(***************************************************************************)
(* Lines                                                                   *)
(***************************************************************************)
\* draw_line_strip hands its arguments on as they are, with GL_LINE_STRIP.
draw_line_strip(point_list, color, line_width, g, gl_error) ==
    Drawn(point_list,
          generic_draw_line_strip_gl(point_list, color, line_width,
                                     "GL_LINE_STRIP", g, gl_error))

(***************************************************************************)
(* Ellipses                                                                *)
(***************************************************************************)
\* `if tilt_angle == 0: .. else: rotate_point(point[0], point[1], 0, 0, ..)`
uncentered(unrotated_point_list, tilt_angle) ==
    IF tilt_angle = 0
    THEN unrotated_point_list
    ELSE [i \in 1..Len(unrotated_point_list) |->
             rotate_point(unrotated_point_list[i][1],
                          unrotated_point_list[i][2], 0, 0, tilt_angle)]

\* point_list.append((point[0] + center_x, point[1] + center_y))
centered(uncentered_point_list, center_x, center_y) ==
    [i \in 1..Len(uncentered_point_list) |->
        << uncentered_point_list[i][1] + center_x,
           uncentered_point_list[i][2] + center_y >>]

\* A faulty variant of the filled ellipse that closes the fan with the first
\* point.
ellipse_filled_points_closed(width, height, num_segments) ==
    [i \in 1..(num_segments + 1) |->
        << Mul(width, cos_theta((i - 1) % num_segments, num_segments)),
           Mul(height, sin_theta((i - 1) % num_segments, num_segments)) >>]

\* The loop `for segment in range(num_segments)` of draw_ellipse_filled.
ellipse_filled_points(width, height, num_segments) ==
    [i \in 1..num_segments |->
        << Mul(width, cos_theta(i - 1, num_segments)),
           Mul(height, sin_theta(i - 1, num_segments)) >>]

\* The loop `for segment in range(num_segments)` of draw_ellipse_outline.
ellipse_outline_points(width, height, num_segments) ==
    [i \in 1..num_segments |->
        << Mul(width, cos_theta(i - 1, num_segments)),
           Mul(height, sin_theta(i - 1, num_segments)) >>]

draw_ellipse_filled(center_x, center_y, width, height, color, tilt_angle, num_segments, g) ==
    LET unrotated_point_list == ellipse_filled_points(width, height, num_segments)
        point_list == centered(uncentered(unrotated_point_list, tilt_angle),
                               center_x, center_y)
    IN  Drawn(point_list,
              generic_draw_line_strip(point_list, color, 1, "GL_TRIANGLE_FAN", g))

draw_ellipse_outline(center_x, center_y, width, height, color, border_width, tilt_angle, num_segments, g) ==
    LET unrotated_point_list == ellipse_outline_points(width, height, num_segments)
        point_list == centered(uncentered(unrotated_point_list, tilt_angle),
                               center_x, center_y)
    IN  Drawn(point_list,
              generic_draw_line_strip(point_list, color, border_width,
                                      "GL_LINE_LOOP", g))

(***************************************************************************)
(* Arcs                                                                    *)
(***************************************************************************)
\* A faulty variant of the segment of an angle that rounds toward minus
\* infinity: math.floor in place of int.
arc_segment_floor(angle, num_segments) == (angle * num_segments) \div 360

\* int(angle / 360 * num_segments): int() drops the fraction, so the quotient
\* is rounded toward zero.  The angles are whole degrees.
arc_segment(angle, num_segments) ==
    IF angle * num_segments >= 0
    THEN (angle * num_segments) \div 360
    ELSE -((-(angle * num_segments)) \div 360)

\* len(range(start_segment, end_segment + 1))
range_length(start_segment, end_segment) ==
    IF end_segment >= start_segment THEN end_segment - start_segment + 1 ELSE 0

\* math.cos(theta) and math.sin(theta) for theta = 2.0 * pi * segment /
\* num_segments of a segment outside 0 .. num_segments - 1; to the precision
\* kept here they repeat every num_segments segments, for 3.1415926
\* (draw_arc_filled) and for math.pi (draw_arc_outline) alike.
arc_cos_theta(segment, num_segments) ==
    cos_theta(segment % num_segments, num_segments)

arc_sin_theta(segment, num_segments) ==
    sin_theta(segment % num_segments, num_segments)

\* A faulty variant of the filled arc whose loop stops before end_segment:
\* range(start_segment, end_segment).
arc_filled_points_open(width, height, start_angle, end_angle, num_segments) ==
    LET start_segment == arc_segment(start_angle, num_segments)
        end_segment == arc_segment(end_angle, num_segments)
    IN  << <<0, 0>> >> \o
        [i \in 1..range_length(start_segment, end_segment - 1) |->
            << Mul(width, arc_cos_theta(start_segment + i - 1, num_segments)),
               Mul(height, arc_sin_theta(start_segment + i - 1, num_segments)) >>]

\* unrotated_point_list of draw_arc_filled: [0, 0] and then one point for
\* each segment of range(start_segment, end_segment + 1).
arc_filled_points(width, height, start_angle, end_angle, num_segments) ==
    LET start_segment == arc_segment(start_angle, num_segments)
        end_segment == arc_segment(end_angle, num_segments)
    IN  << <<0, 0>> >> \o
        [i \in 1..range_length(start_segment, end_segment) |->
            << Mul(width, arc_cos_theta(start_segment + i - 1, num_segments)),
               Mul(height, arc_sin_theta(start_segment + i - 1, num_segments)) >>]

\* A faulty variant of the outline arc that appends the outside point of a
\* segment before its inside point.
arc_outline_points_outside_first(width, height, border_width, start_angle, end_angle, num_segments) ==
    LET start_segment == arc_segment(start_angle, num_segments)
        end_segment == arc_segment(end_angle, num_segments)
        inside_width == width - Half(border_width)
        outside_width == width + Half(border_width)
        inside_height == height - Half(border_width)
        outside_height == height + Half(border_width)
    IN  [i \in 1..(2 * range_length(start_segment, end_segment)) |->
            LET segment == start_segment + ((i - 1) \div 2)
            IN  IF i % 2 = 0
                THEN << Mul(inside_width, arc_cos_theta(segment, num_segments)),
                        Mul(inside_height, arc_sin_theta(segment, num_segments)) >>
                ELSE << Mul(outside_width, arc_cos_theta(segment, num_segments)),
                        Mul(outside_height, arc_sin_theta(segment, num_segments)) >>]

\* unrotated_point_list of draw_arc_outline: (x1, y1) and then (x2, y2) for
\* each segment of range(start_segment, end_segment + 1).
arc_outline_points(width, height, border_width, start_angle, end_angle, num_segments) ==
    LET start_segment == arc_segment(start_angle, num_segments)
        end_segment == arc_segment(end_angle, num_segments)
        inside_width == width - Half(border_width)
        outside_width == width + Half(border_width)
        inside_height == height - Half(border_width)
        outside_height == height + Half(border_width)
    IN  [i \in 1..(2 * range_length(start_segment, end_segment)) |->
            LET segment == start_segment + ((i - 1) \div 2)
            IN  IF i % 2 = 1
                THEN << Mul(inside_width, arc_cos_theta(segment, num_segments)),
                        Mul(inside_height, arc_sin_theta(segment, num_segments)) >>
                ELSE << Mul(outside_width, arc_cos_theta(segment, num_segments)),
                        Mul(outside_height, arc_sin_theta(segment, num_segments)) >>]

draw_arc_filled(center_x, center_y, width, height, color, start_angle, end_angle, tilt_angle, num_segments, g) ==
    LET unrotated_point_list == arc_filled_points(width, height, start_angle,
                                                  end_angle, num_segments)
        point_list == centered(uncentered(unrotated_point_list, tilt_angle),
                               center_x, center_y)
    IN  Drawn(point_list,
              generic_draw_line_strip(point_list, color, 1, "GL_TRIANGLE_FAN", g))

\* border_width sets the two radii only: the line width handed on is 1.
draw_arc_outline(center_x, center_y, width, height, color, start_angle, end_angle, border_width, tilt_angle, num_segments, g) ==
    LET unrotated_point_list == arc_outline_points(width, height, border_width,
                                                   start_angle, end_angle,
                                                   num_segments)
        point_list == centered(uncentered(unrotated_point_list, tilt_angle),
                               center_x, center_y)
    IN  Drawn(point_list,
              generic_draw_line_strip(point_list, color, 1,
                                      "GL_TRIANGLE_STRIP", g))

(***************************************************************************)
(* Rectangles                                                              *)
(***************************************************************************)
\* A faulty variant of the corners that takes half the width and height off
\* the center: -(width // 2) in place of -width // 2.
rectangle_corners_symmetric(center_x, center_y, width, height) ==
    << << center_x - FloorDiv2(width), center_y - FloorDiv2(height) >>,
       << center_x + FloorDiv2(width), center_y - FloorDiv2(height) >>,
       << center_x + FloorDiv2(width), center_y + FloorDiv2(height) >>,
       << center_x - FloorDiv2(width), center_y + FloorDiv2(height) >> >>

\* p1 .. p4 of draw_rectangle_filled and draw_rectangle_outline, before tilt.
rectangle_corners(center_x, center_y, width, height) ==
    << << FloorDiv2(-width) + center_x, FloorDiv2(-height) + center_y >>,
       << FloorDiv2(width) + center_x, FloorDiv2(-height) + center_y >>,
       << FloorDiv2(width) + center_x, FloorDiv2(height) + center_y >>,
       << FloorDiv2(-width) + center_x, FloorDiv2(height) + center_y >> >>

\* `if tilt_angle != 0: p = rotate_point(p[0], p[1], center_x, center_y, ..)`
tilted(p, center_x, center_y, tilt_angle) ==
    IF tilt_angle # 0
    THEN [i \in 1..Len(p) |->
             rotate_point(p[i][1], p[i][2], center_x, center_y, tilt_angle)]
    ELSE p

\* The tuple draw_rectangle_filled submits; the first definition is the faulty
\* variant in loop order.
filled_order_loop(p) == <<p[1], p[2], p[3], p[4]>>

filled_order(p) == <<p[1], p[2], p[4], p[3]>>

\* The tuple draw_rectangle_outline submits.
outline_order(p) == <<p[1], p[2], p[3], p[4]>>

draw_rectangle_filled(center_x, center_y, width, height, color, tilt_angle, g) ==
    LET p == tilted(rectangle_corners(center_x, center_y, width, height),
                    center_x, center_y, tilt_angle)
        point_list == filled_order(p)
    IN  Drawn(point_list,
              generic_draw_line_strip(point_list, color, 1,
                                      "GL_TRIANGLE_STRIP", g))

draw_rectangle_outline(center_x, center_y, width, height, color, border_width, tilt_angle, g) ==
    LET p == tilted(rectangle_corners(center_x, center_y, width, height),
                    center_x, center_y, tilt_angle)
        point_list == outline_order(p)
    IN  Drawn(point_list,
              generic_draw_line_strip(point_list, color, border_width,
                                      "GL_LINE_LOOP", g))

\* AttributeError of draw_lrtb_rectangle_filled; the message carries the two
\* coordinates.
BoundsError(which, value, limit) ==
    [kind |-> "InvalidRectangleBounds", which |-> which, axis |-> "",
     value |-> value, limit |-> limit]

\* The two checks at the top of the lrtb functions; the first definition is
\* the faulty variant that tests bottom against top first.
lrtb_check_bottom_first(left, right, top, bottom) ==
    IF bottom > top THEN "Bottom"
    ELSE IF left > right THEN "Left"
    ELSE ""

lrtb_check(left, right, top, bottom) ==
    IF left > right THEN "Left"
    ELSE IF bottom > top THEN "Bottom"
    ELSE ""

draw_lrtb_rectangle_filled(left, right, top, bottom, color, g) ==
    LET bad == lrtb_check(left, right, top, bottom)
        center_x == Half(left + right)
        center_y == Half(top + bottom)
        width == right - left
        height == top - bottom
    IN  IF bad = "Left" THEN Refused(BoundsError("Left", left, right), g)
        ELSE IF bad = "Bottom" THEN Refused(BoundsError("Bottom", bottom, top), g)
        ELSE draw_rectangle_filled(center_x, center_y, width, height, color, 0, g)

draw_lrtb_rectangle_outline(left, right, top, bottom, color, border_width, g) ==
    LET bad == lrtb_check(left, right, top, bottom)
        center_x == Half(left + right)
        center_y == Half(top + bottom)
        width == right - left
        height == top - bottom
    IN  IF bad = "Left" THEN Refused(BoundsError("Left", 0, 0), g)
        ELSE IF bad = "Bottom" THEN Refused(BoundsError("Bottom", 0, 0), g)
        ELSE draw_rectangle_outline(center_x, center_y, width, height, color,
                                    border_width, 0, g)

(***************************************************************************)
(* The calls of the drawing functions and their arguments.                 *)
(***************************************************************************)
\* Most segments an ellipse is drawn with.
MaxSegments == 4

Colors == { <<255, 0, 0>>, <<0, 0, 255, 127>>, <<1, 2>> }

\* The colors rectangles are drawn with: one RGB, one that is no color.
RectColors == { <<255, 0, 0>>, <<1, 2>> }

Centers == { <<10, 10>>, <<0, -3>> }

RectWidths == {0, 4, 5}

RectHeights == {0, 7}

TiltAngles == {0, 30}

\* The border width of the outlines: not the line width 1 of the filled
\* shapes.
BorderWidths == {3}

LeftRights == {1, 4}

TopBottoms == {1, 4}

\* (start_angle, end_angle) of the arcs, in degrees: multiples of 360 /
\* num_segments and others, negative angles, more than a full turn.
ArcAngles ==
    { <<0, 180>>, <<-45, 45>>, <<-90, 0>>, <<0, 450>>, <<-100, 100>> }

\* An end angle before the start angle: range() is empty.  Only the filled
\* arc is drawn with it; what numpy makes of the empty point list of the
\* outline arc depends on its version.
ReversedArcAngles == { <<180, 0>> }

\* The point lists draw_line_strip is called with.
LineStrips ==
    { << <<Fx(0), Fx(0)>>, <<Fx(4), Fx(3)>> >>,
      << <<Fx(1), Fx(1)>>, <<Fx(2), Fx(5)>>, <<Fx(6), Fx(1)>> >> }

DrawResult(op, a, r) ==
    [op |-> op, args |-> a, ok |-> r.ok, err |-> r.err, ret |-> <<>>,
     calls |-> r.calls, geometry |-> r.geometry, submitted |-> r.submitted]

Draw(op, a, r) ==
    /\ result' = DrawResult(op, a, r)
    /\ gl' = r.gl
    /\ UNCHANGED <<texture_cache, heap, sprites, gl_names, loaded, refused>>

DrawRectangleFilled ==
    \E c \in Centers, w \in RectWidths, h \in RectHeights, t \in TiltAngles,
       color \in RectColors :
        Draw("draw_rectangle_filled",
             [center_x |-> Fx(c[1]), center_y |-> Fx(c[2]), width |-> Fx(w),
              height |-> Fx(h), color |-> color, border_width |-> 1,
              tilt_angle |-> t],
             draw_rectangle_filled(Fx(c[1]), Fx(c[2]), Fx(w), Fx(h), color, t, gl))

DrawRectangleOutline ==
    \E c \in Centers, w \in RectWidths, h \in RectHeights, t \in TiltAngles,
       color \in RectColors, b \in BorderWidths :
        Draw("draw_rectangle_outline",
             [center_x |-> Fx(c[1]), center_y |-> Fx(c[2]), width |-> Fx(w),
              height |-> Fx(h), color |-> color, border_width |-> b,
              tilt_angle |-> t],
             draw_rectangle_outline(Fx(c[1]), Fx(c[2]), Fx(w), Fx(h), color, b,
                                    t, gl))

DrawLrtbRectangleFilled ==
    \E l \in LeftRights, r \in LeftRights, t \in TopBottoms, b \in TopBottoms,
       color \in RectColors :
        Draw("draw_lrtb_rectangle_filled",
             [left |-> Fx(l), right |-> Fx(r), top |-> Fx(t), bottom |-> Fx(b),
              color |-> color, border_width |-> 1],
             draw_lrtb_rectangle_filled(Fx(l), Fx(r), Fx(t), Fx(b), color, gl))

DrawLrtbRectangleOutline ==
    \E l \in LeftRights, r \in LeftRights, t \in TopBottoms, b \in TopBottoms,
       color \in RectColors, bw \in BorderWidths :
        Draw("draw_lrtb_rectangle_outline",
             [left |-> Fx(l), right |-> Fx(r), top |-> Fx(t), bottom |-> Fx(b),
              color |-> color, border_width |-> bw],
             draw_lrtb_rectangle_outline(Fx(l), Fx(r), Fx(t), Fx(b), color, bw,
                                         gl))

DrawEllipseFilled ==
    \E c \in {<<10, 10>>}, t \in TiltAngles, n \in 1..MaxSegments, color \in Colors :
        Draw("draw_ellipse_filled",
             [center_x |-> Fx(c[1]), center_y |-> Fx(c[2]), width |-> Fx(3),
              height |-> Fx(2), color |-> color, border_width |-> 1,
              tilt_angle |-> t, num_segments |-> n],
             draw_ellipse_filled(Fx(c[1]), Fx(c[2]), Fx(3), Fx(2), color, t, n,
                                 gl))

DrawEllipseOutline ==
    \E c \in {<<10, 10>>}, t \in TiltAngles, n \in 1..MaxSegments, color \in Colors,
       b \in BorderWidths :
        Draw("draw_ellipse_outline",
             [center_x |-> Fx(c[1]), center_y |-> Fx(c[2]), width |-> Fx(3),
              height |-> Fx(2), color |-> color, border_width |-> b,
              tilt_angle |-> t, num_segments |-> n],
             draw_ellipse_outline(Fx(c[1]), Fx(c[2]), Fx(3), Fx(2), color, b, t,
                                  n, gl))

DrawArcFilled ==
    \E t \in TiltAngles, n \in (1..MaxSegments) \cup {default_num_segments},
       color \in RectColors,
       angles \in ArcAngles \cup ReversedArcAngles :
        \* The default number of segments is drawn for the half turn only.
        /\ n = default_num_segments => angles = <<0, 180>>
        /\ Draw("draw_arc_filled",
             [center_x |-> Fx(10), center_y |-> Fx(10), width |-> Fx(3),
              height |-> Fx(2), color |-> color, border_width |-> 1,
              start_angle |-> angles[1], end_angle |-> angles[2],
              tilt_angle |-> t, num_segments |-> n],
             draw_arc_filled(Fx(10), Fx(10), Fx(3), Fx(2), color, angles[1],
                             angles[2], t, n, gl))

DrawArcOutline ==
    \E t \in TiltAngles, n \in 1..MaxSegments, color \in RectColors,
       angles \in ArcAngles, b \in BorderWidths :
        Draw("draw_arc_outline",
             [center_x |-> Fx(10), center_y |-> Fx(10), width |-> Fx(3),
              height |-> Fx(2), color |-> color, border_width |-> b,
              start_angle |-> angles[1], end_angle |-> angles[2],
              tilt_angle |-> t, num_segments |-> n],
             draw_arc_outline(Fx(10), Fx(10), Fx(3), Fx(2), color, angles[1],
                              angles[2], Fx(b), t, n, gl))

\* draw_line_strip, with the step (if any) that the OpenGL driver fails.
DrawLineStrip ==
    \E point_list \in LineStrips, color \in Colors, gl_error \in GlErrors :
        Draw("draw_line_strip",
             [point_list |-> point_list, color |-> color, border_width |-> 3,
              gl_error |-> gl_error],
             draw_line_strip(point_list, color, 3, gl, gl_error))

DrawNext ==
    \/ DrawLineStrip
    \/ DrawArcFilled
    \/ DrawArcOutline
    \/ DrawRectangleFilled
    \/ DrawRectangleOutline
    \/ DrawLrtbRectangleFilled
    \/ DrawLrtbRectangleOutline
    \/ DrawEllipseFilled
    \/ DrawEllipseOutline

DrawSpec == Init /\ [][DrawNext]_vars

(***************************************************************************)
(* draw_texture_rectangle and draw_xywh_rectangle_textured                 *)
(***************************************************************************)
\* texture.draw(center_x, center_y, width, height, angle, alpha,
\*              repeat_count_x, repeat_count_y): eight positional arguments
\* for the nine parameters of draw, so the last one, repeat_count_y, takes
\* its default 1.
draw_texture_rectangle(hp, sp, center_x, center_y, width, height, texture, angle, alpha, transparent, repeat_count_x, repeat_count_y) ==
    Texture_draw(hp, sp, texture, center_x, center_y, width, height, angle,
                 alpha, repeat_count_x, repeat_count_y, PyInt(1))

draw_xywh_rectangle_textured(hp, sp, bottom_left_x, bottom_left_y, width, height, texture, angle, alpha, transparent, repeat_count_x, repeat_count_y) ==
    LET center_x == bottom_left_x + Half(width)
        center_y == bottom_left_y + Half(height)
    IN  draw_texture_rectangle(hp, sp, center_x, center_y, width, height,
                               texture, angle, alpha, transparent,
                               repeat_count_x, repeat_count_y)

\* The values of transparent, repeat_count_x and repeat_count_y the textured
\* rectangles are drawn with.
RepeatCountsX == {1, 2}

RepeatCountsY == {1, 3}

Textured(op, a, r) ==
    /\ heap' = r.heap
    /\ sprites' = r.sprites
    /\ result' = [op |-> op, args |-> a, ok |-> TRUE, err |-> NoError,
                  ret |-> <<>>, calls |-> r.calls, geometry |-> <<>>,
                  submitted |-> r.submitted, received |-> r.received]
    /\ UNCHANGED <<texture_cache, gl_names, loaded, refused, gl>>

\* draw_texture_rectangle(10, 10, 4, 7, texture, 90, 1, transparent, rx, ry)
DrawTextureRectangle ==
    \E texture \in 1..Len(heap), transparent \in BOOLEAN,
       rx \in RepeatCountsX, ry \in RepeatCountsY :
        Textured("draw_texture_rectangle",
                 [center_x |-> Fx(10), center_y |-> Fx(10), width |-> Fx(4),
                  height |-> Fx(7), texture |-> texture, angle |-> 90,
                  alpha |-> 1, transparent |-> PyBool(transparent),
                  repeat_count_x |-> PyInt(rx), repeat_count_y |-> PyInt(ry)],
                 draw_texture_rectangle(heap, sprites, Fx(10), Fx(10), Fx(4),
                                        Fx(7), texture, 90, 1,
                                        PyBool(transparent), PyInt(rx),
                                        PyInt(ry)))

\* draw_xywh_rectangle_textured(1, 2, 4, 7, texture, 90, 1, transparent, rx,
\* ry): the center is (3, 5.5).
DrawXywhRectangleTextured ==
    \E texture \in 1..Len(heap), transparent \in BOOLEAN,
       rx \in RepeatCountsX, ry \in RepeatCountsY :
        Textured("draw_xywh_rectangle_textured",
                 [bottom_left_x |-> Fx(1), bottom_left_y |-> Fx(2),
                  width |-> Fx(4),
                  height |-> Fx(7), texture |-> texture, angle |-> 90,
                  alpha |-> 1, transparent |-> PyBool(transparent),
                  repeat_count_x |-> PyInt(rx), repeat_count_y |-> PyInt(ry)],
                 draw_xywh_rectangle_textured(heap, sprites, Fx(1), Fx(2),
                                              Fx(4), Fx(7), texture, 90, 1,
                                              PyBool(transparent), PyInt(rx),
                                              PyInt(ry)))

TexturedNext == DrawTextureRectangle \/ DrawXywhRectangleTextured

TexturedSpec == ProxyInit /\ [][TexturedNext]_vars

(***************************************************************************)
(* Properties of the texture cache and the loaders.                        *)
(***************************************************************************)
IsLoadTexture(r) == r.op = "load_texture"

\* The arguments of a load_texture call name a crop rectangle.
HasCrop(a) == a.x # 0 \/ a.y # 0 \/ a.width # 0 \/ a.height # 0

\* C1: once load_texture has returned Texture T for an argument tuple, every
\* later load_texture call with that tuple returns the same instance T, makes
\* no PIL or OpenGL call and constructs nothing; no cache entry is ever
\* removed or bound to another Texture, and no existing Texture is altered.
C1_RepeatedLoadReturnsSameInstance ==
    [][ /\ \A k \in DOMAIN texture_cache :
              k \in DOMAIN texture_cache' /\ texture_cache'[k] = texture_cache[k]
        /\ \A i \in 1..Len(heap) : i <= Len(heap') /\ heap'[i] = heap[i]
        /\ (IsLoadTexture(result') /\ result'.args \in DOMAIN loaded) =>
              /\ result'.ok
              /\ result'.ret = <<loaded[result'.args]>>
              /\ result'.calls = <<>>
              /\ heap' = heap
              /\ gl_names' = gl_names
        /\ (IsLoadTexture(result') /\ result'.ok) =>
              /\ loaded'[result'.args] = result'.ret[1]
              /\ result'.ret[1] \in 1..Len(heap')
      ]_vars

\* A repeated call answered from the cache after another texture was made.
C1_Witness ==
    /\ IsLoadTexture(result) /\ result.ok /\ result.calls = <<>>
    /\ result.ret = <<1>>
    /\ Len(heap) = 2
    /\ loaded[result.args] = 1

\* C2: load_texture calls whose argument tuples differ never return the same
\* Texture instance nor Textures with the same OpenGL name.
C2_DistinctTuplesNeverAlias ==
    \A t1 \in DOMAIN loaded, t2 \in DOMAIN loaded :
        t1 # t2 =>
            /\ loaded[t1] # loaded[t2]
            /\ heap[loaded[t1]].texture_id # heap[loaded[t2]].texture_id

\* The crop origin and the crop end lie within [0, W] x [0, H].
CropWithinSource(a) ==
    LET size == source_image_size(a.file_name)
    IN  /\ 0 <= a.x /\ a.x <= size.width
        /\ 0 <= a.y /\ a.y <= size.height
        /\ 0 <= a.x + a.width /\ a.x + a.width <= size.width
        /\ 0 <= a.y + a.height /\ a.y + a.height <= size.height

\* C3: a load_texture call with a crop rectangle whose origin or end lies
\* outside the source image fails with CropOutOfBounds and returns nothing.
C3_CropOutsideSourceFails ==
    (IsLoadTexture(result) /\ HasCrop(result.args)
        /\ ~CropWithinSource(result.args)) =>
        /\ ~result.ok
        /\ result.err.kind = "CropOutOfBounds"
        /\ result.ret = <<>>

\* The bounds a crop rectangle breaks, in the order start-x, start-y, end-x,
\* end-y, each with the error that names it.
BrokenBounds(a) ==
    LET size == source_image_size(a.file_name)
        all == << [broken |-> a.x > size.width,
                   err |-> CropError("starting", "x", a.x, size.width)],
                  [broken |-> a.y > size.height,
                   err |-> CropError("starting", "y", a.y, size.height)],
                  [broken |-> a.x + a.width > size.width,
                   err |-> CropError("ending", "x", a.x + a.width, size.width)],
                  [broken |-> a.y + a.height > size.height,
                   err |-> CropError("ending", "y", a.y + a.height, size.height)] >>
    IN  SelectSeq(all, LAMBDA b : b.broken)

\* C4: a load_texture call whose crop rectangle breaks several bounds raises
\* the error of the first broken bound in the order start-x, start-y, end-x,
\* end-y, naming the axis, start or end, the coordinate and the image size.
C4_FirstBrokenBoundReported ==
    (IsLoadTexture(result) /\ HasCrop(result.args)
        /\ Len(BrokenBounds(result.args)) >= 2) =>
        /\ ~result.ok
        /\ result.err = BrokenBounds(result.args)[1].err

\* C5: a successful load_textures call on n locations returns n Textures,
\* the i-th made from the i-th location, each a new instance with an OpenGL
\* name not handed out before; the cache and the existing Textures stay as
\* they were.
C5_LoadTexturesFreshInOrder ==
    [][ (result'.op = "load_textures" /\ result'.ok) =>
          LET l == result'.args.image_location_list
              ret == result'.ret
          IN  /\ Len(ret) = Len(l)
              /\ \A i \in 1..Len(ret) :
                    /\ ret[i] > Len(heap) /\ ret[i] <= Len(heap')
                    /\ heap'[ret[i]].texture_name.location = l[i]
                    /\ heap'[ret[i]].texture_id > gl_names
                    /\ \A j \in 1..Len(ret) :
                          i # j =>
                            /\ ret[i] # ret[j]
                            /\ heap'[ret[i]].texture_id # heap'[ret[j]].texture_id
              /\ texture_cache' = texture_cache
              /\ \A i \in 1..Len(heap) : heap'[i] = heap[i]
      ]_vars

\* Two different locations loaded by one call.
C5_Witness ==
    /\ result.op = "load_textures" /\ result.ok
    /\ Len(result.ret) = 2
    /\ result.args.image_location_list[1] # result.args.image_location_list[2]
    /\ heap[result.ret[1]].texture_name.location
          = result.args.image_location_list[1]

\* C6: Texture(..) succeeds only with width > 0 and height > 0; with any other
\* width or height it raises InvalidDimension and no Texture comes to exist.
C6_ConstructionNeedsPositiveSize ==
    result.op = "Texture" =>
        /\ result.ok <=> (result.args.width > 0 /\ result.args.height > 0)
        /\ ~result.ok => (result.err.kind = "InvalidDimension" /\ result.ret = <<>>)

(***************************************************************************)
(* Properties of the rectangle and ellipse drawing functions.              *)
(***************************************************************************)
IsRectangle(r) ==
    r.op \in {"draw_rectangle_filled", "draw_rectangle_outline"}

IsLrtb(r) ==
    r.op \in {"draw_lrtb_rectangle_filled", "draw_lrtb_rectangle_outline"}

\* p1, p2, p3, p4 as found in the list a rectangle function tessellated.
TessellatedCorners(r) ==
    LET g == r.geometry[1]
    IN  IF r.op = "draw_rectangle_filled"
        THEN <<g[1], g[2], g[4], g[3]>>
        ELSE <<g[1], g[2], g[3], g[4]>>

\* floor(v / 2) and ceiling(v / 2) in whole units, for v >= 0.
FloorOfHalf(v) == Fx(CHOOSE n \in 0..v : 2 * Fx(n) <= v /\ v < 2 * Fx(n + 1))
CeilingOfHalf(v) == Fx(CHOOSE n \in 0..v : 2 * Fx(n - 1) < v /\ v <= 2 * Fx(n))

\* C7 as stated: at tilt 0 the corners are the center minus and plus
\* floor(width / 2) and floor(height / 2).
C7_CornersByFloorOfHalf ==
    (IsRectangle(result) /\ result.args.tilt_angle = 0) =>
        LET a == result.args
            fw == FloorOfHalf(a.width)
            fh == FloorOfHalf(a.height)
        IN  TessellatedCorners(result) =
                << <<a.center_x - fw, a.center_y - fh>>,
                   <<a.center_x + fw, a.center_y - fh>>,
                   <<a.center_x + fw, a.center_y + fh>>,
                   <<a.center_x - fw, a.center_y + fh>> >>

\* C7 amended: at tilt 0 the left and bottom coordinates are the center minus
\* ceiling(width / 2) and ceiling(height / 2), the right and top ones the
\* center plus floor(width / 2) and floor(height / 2); center (10, 10),
\* width 5, height 7 gives (7, 6), (12, 6), (12, 13), (7, 13).
C7_CornersByCeilingAndFloor ==
    (IsRectangle(result) /\ result.args.tilt_angle = 0) =>
        LET a == result.args
            fw == FloorOfHalf(a.width)
            fh == FloorOfHalf(a.height)
            cw == CeilingOfHalf(a.width)
            ch == CeilingOfHalf(a.height)
        IN  /\ TessellatedCorners(result) =
                  << <<a.center_x - cw, a.center_y - ch>>,
                     <<a.center_x + fw, a.center_y - ch>>,
                     <<a.center_x + fw, a.center_y + fh>>,
                     <<a.center_x - cw, a.center_y + fh>> >>
            /\ (a.center_x = Fx(10) /\ a.center_y = Fx(10) /\ a.width = Fx(5)
                  /\ a.height = Fx(7)) =>
                  TessellatedCorners(result) =
                      << <<Fx(7), Fx(6)>>, <<Fx(12), Fx(6)>>,
                         <<Fx(12), Fx(13)>>, <<Fx(7), Fx(13)>> >>

\* The rectangle of the example, untilted.
C7_Witness ==
    /\ IsRectangle(result) /\ result.args.tilt_angle = 0
    /\ result.args.center_x = Fx(10) /\ result.args.center_y = Fx(10)
    /\ result.args.width = Fx(5) /\ result.args.height = Fx(7)
    /\ result.geometry # <<>>

\* The bottom-left, bottom-right, top-right and top-left corner of the
\* rectangle of the call, turned about its center by its tilt angle.
TurnedCorners(a) ==
    LET left == a.center_x - CeilingOfHalf(a.width)
        right == a.center_x + FloorOfHalf(a.width)
        bottom == a.center_y - CeilingOfHalf(a.height)
        top == a.center_y + FloorOfHalf(a.height)
        c == << <<left, bottom>>, <<right, bottom>>, <<right, top>>,
                <<left, top>> >>
    IN  IF a.tilt_angle = 0 THEN c
        ELSE [i \in 1..4 |-> rotate_point(c[i][1], c[i][2], a.center_x,
                                          a.center_y, a.tilt_angle)]

\* C8: draw_rectangle_filled submits the four corners in the order bottom-left,
\* bottom-right, top-left, top-right as a triangle strip of line width 1;
\* draw_rectangle_outline submits them in the order bottom-left, bottom-right,
\* top-right, top-left as a line loop of the caller's border width; tilted or
\* not.
C8_RectangleVertexOrder ==
    IsRectangle(result) =>
        LET a == result.args
            p == TurnedCorners(a)
            filled == result.op = "draw_rectangle_filled"
            order == IF filled THEN <<p[1], p[2], p[4], p[3]>>
                     ELSE <<p[1], p[2], p[3], p[4]>>
        IN  /\ result.geometry = <<order>>
            /\ result.submitted # <<>> =>
                  /\ result.submitted[1].vertices = order
                  /\ Len(result.submitted[1].vertices) = 4
                  /\ result.submitted[1].mode =
                        (IF filled THEN "GL_TRIANGLE_STRIP" ELSE "GL_LINE_LOOP")
                  /\ result.submitted[1].line_width =
                        (IF filled THEN 1 ELSE a.border_width)

\* A tilted filled rectangle and the submission it made.
C8_Witness ==
    /\ result.op = "draw_rectangle_filled" /\ result.submitted # <<>>
    /\ result.args.tilt_angle = 30 /\ result.args.width = Fx(5)
    /\ result.submitted[1].vertices[3] # result.submitted[1].vertices[4]

\* C9: the lrtb functions raise InvalidRectangleBounds exactly when
\* left > right or bottom > top, then tessellate nothing, call nothing of the
\* shader or OpenGL and leave the context as it was; with both out of order
\* the error is the one about left and right.
C9_LrtbBoundsRejectedBeforeDrawing ==
    [][ IsLrtb(result') =>
          LET a == result'.args
              bad == a.left > a.right \/ a.bottom > a.top
          IN  /\ bad <=> (result'.err.kind = "InvalidRectangleBounds")
              /\ bad =>
                    /\ ~result'.ok
                    /\ result'.geometry = <<>>
                    /\ result'.calls = <<>>
                    /\ result'.submitted = <<>>
                    /\ gl' = gl
              /\ (a.left > a.right) => result'.err.which = "Left"
              /\ (a.left <= a.right /\ a.bottom > a.top) =>
                    result'.err.which = "Bottom"
              /\ ~bad => result'.geometry # <<>>
      ]_vars

\* Both pairs out of order, after an earlier call has configured the context.
C9_Witness ==
    /\ IsLrtb(result)
    /\ result.args.left > result.args.right
    /\ result.args.bottom > result.args.top
    /\ result.err.which = "Left"
    /\ gl.blend

\* C10: with the same center, width, height, tilt and num_segments the filled
\* and the outline ellipse submit the same list of num_segments vertices, no
\* closing vertex; the filled one as a triangle fan of line width 1, the
\* outline one as a line loop of the border width.
C10_EllipseFilledAndOutlineSameVertices ==
    (result.op \in {"draw_ellipse_filled", "draw_ellipse_outline"}) =>
        LET a == result.args
            f == draw_ellipse_filled(a.center_x, a.center_y, a.width, a.height,
                     a.color, a.tilt_angle, a.num_segments, gl)
            o == draw_ellipse_outline(a.center_x, a.center_y, a.width,
                     a.height, a.color, a.border_width, a.tilt_angle,
                     a.num_segments, gl)
        IN  /\ result.geometry = f.geometry
            /\ result.geometry = o.geometry
            /\ Len(result.geometry[1]) = a.num_segments
            /\ \A i \in 1..a.num_segments, j \in 1..a.num_segments :
                  i # j => result.geometry[1][i] # result.geometry[1][j]
            /\ (f.submitted # <<>>) <=> (o.submitted # <<>>)
            /\ result.submitted # <<>> =>
                  /\ result.submitted[1].vertices = result.geometry[1]
                  /\ f.submitted[1].vertices = o.submitted[1].vertices
                  /\ f.submitted[1].mode = "GL_TRIANGLE_FAN"
                  /\ o.submitted[1].mode = "GL_LINE_LOOP"
                  /\ f.submitted[1].line_width = 1
                  /\ o.submitted[1].line_width = a.border_width
                  /\ result.submitted[1].mode =
                        (IF result.op = "draw_ellipse_filled"
                         THEN "GL_TRIANGLE_FAN" ELSE "GL_LINE_LOOP")

\* A tilted outline ellipse of four segments and border width 3.
C10_Witness ==
    /\ result.op = "draw_ellipse_outline" /\ result.submitted # <<>>
    /\ result.args.num_segments = 4 /\ result.args.tilt_angle = 30
    /\ result.args.border_width = 3
    /\ Len(result.submitted[1].vertices) = 4

(***************************************************************************)
(* Arcs: the segments visited and the vertices made of them.               *)
(***************************************************************************)
IsArc(r) == r.op \in {"draw_arc_filled", "draw_arc_outline"}

\* floor(angle / 360 * num_segments): the largest integer not above it.
FloorSegment(angle, num_segments) ==
    CHOOSE k \in (-2 * num_segments)..(2 * num_segments) :
        360 * k <= angle * num_segments /\ angle * num_segments < 360 * (k + 1)

\* angle / 360 * num_segments without its fraction: the integer nearest to
\* zero that is not further from zero than the quotient.
TruncatedSegment(angle, num_segments) ==
    CHOOSE k \in (-2 * num_segments)..(2 * num_segments) :
        IF angle * num_segments >= 0
        THEN 360 * k <= angle * num_segments /\ angle * num_segments < 360 * (k + 1)
        ELSE 360 * (k - 1) < angle * num_segments /\ angle * num_segments <= 360 * k

\* The vertex of an arc with radii (rx, ry) at the angle of `segment`, tilted
\* and moved to the center.
PerimeterVertex(a, rx, ry, segment) ==
    LET s == segment % a.num_segments
        p == << Mul(rx, cos_theta(s, a.num_segments)),
                Mul(ry, sin_theta(s, a.num_segments)) >>
        q == IF a.tilt_angle = 0 THEN p
             ELSE rotate_point(p[1], p[2], 0, 0, a.tilt_angle)
    IN  << q[1] + a.center_x, q[2] + a.center_y >>

SegmentCount(first, last) == IF last >= first THEN last - first + 1 ELSE 0

\* The vertices of a filled arc over the segments first .. last: the pivot
\* and one vertex for each segment.
FilledArcVertices(a, first, last) ==
    << <<a.center_x, a.center_y>> >> \o
    [i \in 1..SegmentCount(first, last) |->
        PerimeterVertex(a, a.width, a.height, first + i - 1)]

\* The vertices of an outline arc over the segments first .. last: the inner
\* and then the outer vertex of each segment.
OutlineArcVertices(a, first, last) ==
    LET half_border == Fx(a.border_width) \div 2
    IN  [i \in 1..(2 * SegmentCount(first, last)) |->
            IF i % 2 = 1
            THEN PerimeterVertex(a, a.width - half_border,
                                 a.height - half_border, first + ((i - 1) \div 2))
            ELSE PerimeterVertex(a, a.width + half_border,
                                 a.height + half_border, first + ((i - 2) \div 2))]

ArcVertices(r, first, last) ==
    IF r.op = "draw_arc_filled" THEN FilledArcVertices(r.args, first, last)
    ELSE OutlineArcVertices(r.args, first, last)

\* C11: for 0 <= start_angle <= end_angle the filled arc makes the pivot,
\* which is the center itself, and then one vertex for each segment from
\* floor(start_angle / 360 * N) to floor(end_angle / 360 * N) inclusive, in
\* increasing order; it submits them as a triangle fan.
C11_FilledArcSegmentsAndPivot ==
    (result.op = "draw_arc_filled" /\ 0 <= result.args.start_angle
        /\ result.args.start_angle <= result.args.end_angle) =>
        LET a == result.args
            first == FloorSegment(a.start_angle, a.num_segments)
            last == FloorSegment(a.end_angle, a.num_segments)
        IN  /\ Len(result.geometry[1]) = (last - first + 1) + 1
            /\ result.geometry[1][1] = <<a.center_x, a.center_y>>
            /\ \A i \in 1..(last - first + 1) :
                  result.geometry[1][i + 1] =
                      PerimeterVertex(a, a.width, a.height, first + i - 1)
            /\ result.submitted # <<>> =>
                  /\ result.submitted[1].vertices = result.geometry[1]
                  /\ result.submitted[1].mode = "GL_TRIANGLE_FAN"

\* A tilted half turn of 128 segments: segments 0 .. 64 and the pivot.
C11_Witness ==
    /\ result.op = "draw_arc_filled" /\ result.submitted # <<>>
    /\ result.args.start_angle = 0 /\ result.args.end_angle = 180
    /\ result.args.num_segments = 128 /\ result.args.tilt_angle = 30
    /\ Len(result.submitted[1].vertices) = 65 + 1
    /\ result.submitted[1].vertices[1] = <<Fx(10), Fx(10)>>

\* C12 as stated: both arcs run over the segments floor(start_angle / 360 * N)
\* .. floor(end_angle / 360 * N), for negative angles and angles between two
\* segments too.
C12_SegmentsRoundedDown ==
    IsArc(result) =>
        result.geometry[1] =
            ArcVertices(result,
                FloorSegment(result.args.start_angle, result.args.num_segments),
                FloorSegment(result.args.end_angle, result.args.num_segments))

\* C12: both arcs run over the segments from start_angle / 360 * N to
\* end_angle / 360 * N, each rounded toward zero.
C12_SegmentsRoundedTowardZero ==
    IsArc(result) =>
        result.geometry[1] =
            ArcVertices(result,
                TruncatedSegment(result.args.start_angle, result.args.num_segments),
                TruncatedSegment(result.args.end_angle, result.args.num_segments))

\* An arc from -45 to 45 degrees of four segments: -0.5 and 0.5 both become
\* segment 0, so the outline arc has the two vertices of one segment.
C12_Witness ==
    /\ result.op = "draw_arc_outline" /\ result.submitted # <<>>
    /\ result.args.start_angle = -45 /\ result.args.end_angle = 45
    /\ result.args.num_segments = 4
    /\ Len(result.submitted[1].vertices) = 2

\* C13: the outline arc visits as many segments as the filled arc with the
\* same angles, in increasing order, and makes two vertices of each at the
\* same angle: the inner one with radii (width - border_width / 2, height -
\* border_width / 2), then the outer one with radii (width + border_width / 2,
\* height + border_width / 2); no pivot, submitted as a triangle strip.
C13_OutlineArcInnerThenOuter ==
    (result.op = "draw_arc_outline") =>
        LET a == result.args
            f == draw_arc_filled(a.center_x, a.center_y, a.width, a.height,
                     a.color, a.start_angle, a.end_angle, a.tilt_angle,
                     a.num_segments, gl)
            segments == Len(f.geometry[1]) - 1
            first == TruncatedSegment(a.start_angle, a.num_segments)
            half_border == Fx(a.border_width) \div 2
        IN  /\ Len(result.geometry[1]) = 2 * segments
            /\ \A k \in 1..segments :
                  /\ result.geometry[1][2 * k - 1] =
                        PerimeterVertex(a, a.width - half_border,
                                        a.height - half_border, first + k - 1)
                  /\ result.geometry[1][2 * k] =
                        PerimeterVertex(a, a.width + half_border,
                                        a.height + half_border, first + k - 1)
            /\ result.submitted # <<>> =>
                  /\ result.submitted[1].vertices = result.geometry[1]
                  /\ result.submitted[1].mode = "GL_TRIANGLE_STRIP"

\* More than a full turn of four segments, tilted: twelve vertices, the inner
\* one of a segment different from its outer one.
C13_Witness ==
    /\ result.op = "draw_arc_outline" /\ result.submitted # <<>>
    /\ result.args.start_angle = 0 /\ result.args.end_angle = 450
    /\ result.args.num_segments = 4 /\ result.args.tilt_angle = 30
    /\ Len(result.submitted[1].vertices) = 12
    /\ result.submitted[1].vertices[1] # result.submitted[1].vertices[2]

(***************************************************************************)
(* Tilt                                                                    *)
(***************************************************************************)
HasTilt(r) ==
    r.op \in {"draw_arc_filled", "draw_arc_outline", "draw_ellipse_filled",
              "draw_ellipse_outline", "draw_rectangle_filled",
              "draw_rectangle_outline"}

\* The vertices of a call before rotation: about the origin for arcs and
\* ellipses, in place for rectangles.
UnrotatedVertices(r) ==
    LET a == r.args
    IN  CASE r.op = "draw_arc_filled" ->
                arc_filled_points(a.width, a.height, a.start_angle,
                                  a.end_angle, a.num_segments)
          [] r.op = "draw_arc_outline" ->
                arc_outline_points(a.width, a.height, Fx(a.border_width),
                                   a.start_angle, a.end_angle, a.num_segments)
          [] r.op = "draw_ellipse_filled" ->
                ellipse_filled_points(a.width, a.height, a.num_segments)
          [] r.op = "draw_ellipse_outline" ->
                ellipse_outline_points(a.width, a.height, a.num_segments)
          [] r.op = "draw_rectangle_filled" ->
                filled_order(rectangle_corners(a.center_x, a.center_y,
                                               a.width, a.height))
          [] r.op = "draw_rectangle_outline" ->
                outline_order(rectangle_corners(a.center_x, a.center_y,
                                                a.width, a.height))

\* The vertices the call would make if every point went through rotate_point
\* with angle 0: about the origin and then moved to the center for arcs and
\* ellipses, about the center for rectangles.
RotatedByZero(r) ==
    LET a == r.args
        u == UnrotatedVertices(r)
    IN  IF r.op \in {"draw_rectangle_filled", "draw_rectangle_outline"}
        THEN [i \in 1..Len(u) |->
                 rotate_point(u[i][1], u[i][2], a.center_x, a.center_y, 0)]
        ELSE [i \in 1..Len(u) |->
                 LET q == rotate_point(u[i][1], u[i][2], 0, 0, 0)
                 IN  << q[1] + a.center_x, q[2] + a.center_y >>]

Distance(v, w) == IF v >= w THEN v - w ELSE w - v

\* C14 as stated: with tilt_angle = 0 the vertex list of an arc, an ellipse
\* or a rectangle is, coordinate for coordinate, the list that rotate_point
\* with angle 0 would give.
C14_TiltZeroSameAsRotationByZero ==
    (HasTilt(result) /\ result.args.tilt_angle = 0) =>
        result.geometry[1] = RotatedByZero(result)

\* C14: with tilt_angle = 0 the vertex list of an arc, an ellipse or a
\* rectangle has the length of the list that rotate_point with angle 0 would
\* give, each coordinate is within 0.005 of it (rotate_point rounds to two
\* decimal places, the list made without it is not rounded), and equal to it
\* exactly where the coordinate before rotation has no more than two decimal
\* places.
C14_TiltZeroWithinRoundingOfRotationByZero ==
    (HasTilt(result) /\ result.args.tilt_angle = 0) =>
        LET made == result.geometry[1]
            turned == RotatedByZero(result)
            u == UnrotatedVertices(result)
            cent == Scale \div (10 ^ rounding_precision)
        IN  /\ Len(made) = Len(turned)
            /\ \A i \in 1..Len(made), c \in 1..2 :
                  /\ 2 * Distance(made[i][c], turned[i][c]) <= cent
                  /\ (u[i][c] % cent = 0) <=> (made[i][c] = turned[i][c])

\* An untilted ellipse of three segments: 2 * sin(theta) is 1.732.., which
\* rotate_point would round to 1.73.
C14_Witness ==
    /\ result.op = "draw_ellipse_filled" /\ result.submitted # <<>>
    /\ result.args.tilt_angle = 0 /\ result.args.num_segments = 3
    /\ result.submitted[1].vertices # RotatedByZero(result)
    /\ result.submitted[1].vertices[1] = RotatedByZero(result)[1]

(***************************************************************************)
(* Submission: the calls of one drawing call and the context it leaves.    *)
(***************************************************************************)
DrawOps ==
    {"draw_line_strip", "draw_arc_filled", "draw_arc_outline",
     "draw_ellipse_filled", "draw_ellipse_outline", "draw_rectangle_filled",
     "draw_rectangle_outline", "draw_lrtb_rectangle_filled",
     "draw_lrtb_rectangle_outline"}

IsDraw(r) == r.op \in DrawOps

\* The topology each shape is drawn with.
Topology(op) ==
    CASE op = "draw_line_strip" -> "GL_LINE_STRIP"
      [] op \in {"draw_arc_filled", "draw_ellipse_filled"} -> "GL_TRIANGLE_FAN"
      [] op \in {"draw_arc_outline", "draw_rectangle_filled",
                 "draw_lrtb_rectangle_filled"} -> "GL_TRIANGLE_STRIP"
      [] op \in {"draw_ellipse_outline", "draw_rectangle_outline",
                 "draw_lrtb_rectangle_outline"} -> "GL_LINE_LOOP"

Count(calls, c) == Cardinality({i \in 1..Len(calls) : calls[i] = c})

Position(calls, c) == CHOOSE i \in 1..Len(calls) : calls[i] = c

StateCalls == {GlStateCalls[i] : i \in 1..Len(GlStateCalls)}

\* C15: a drawing call that returns normally has made one buffer upload, then
\* one vertex array that it bound once, then each call of the blend and line
\* state configuration once, and then exactly one draw call, all before it
\* returned; the draw call has the topology of the shape and the vertices of
\* the tessellated list, as many as the list has.
C15_UploadBindConfigureDraw ==
    (IsDraw(result) /\ result.ok) =>
        LET calls == result.calls
        IN  /\ Count(calls, "shader.buffer") = 1
            /\ Count(calls, "shader.vertex_array") = 1
            /\ Count(calls, "vao.__enter__") = 1
            /\ Count(calls, "vao.render") = 1
            /\ Position(calls, "shader.buffer")
                  < Position(calls, "shader.vertex_array")
            /\ Position(calls, "shader.vertex_array")
                  < Position(calls, "vao.__enter__")
            /\ \A c \in StateCalls :
                  /\ Count(calls, c) = 1
                  /\ Position(calls, "vao.__enter__") < Position(calls, c)
                  /\ Position(calls, c) < Position(calls, "vao.render")
            /\ Position(calls, "vao.render") = Len(calls) - 1
            /\ calls[Len(calls)] = "vao.__exit__"
            /\ Len(result.submitted) = 1
            /\ result.submitted[1].mode = Topology(result.op)
            /\ result.submitted[1].vertices = result.geometry[1]
            /\ Len(result.submitted[1].vertices) = Len(result.geometry[1])

\* An outline arc of six segments: fourteen calls, the draw call the last
\* but one.
C15_Witness ==
    /\ result.op = "draw_arc_outline" /\ result.ok
    /\ Len(result.submitted) = 1
    /\ Len(result.submitted[1].vertices) = 12
    /\ result.submitted[1].mode = "GL_TRIANGLE_STRIP"
    /\ Len(result.calls) = 14 /\ result.calls[13] = "vao.render"

\* C16: after every drawing call, whether it returned or raised and wherever
\* it raised, no vertex array is bound; a call that bound one has unbound it
\* as its last step.
C16_BindingReleasedOnEveryExit ==
    /\ gl.vertex_array = 0
    /\ IsDraw(result) =>
          /\ Count(result.calls, "vao.__enter__") <= 1
          /\ Count(result.calls, "vao.__exit__")
                = Count(result.calls, "vao.__enter__")
          /\ Count(result.calls, "vao.__enter__") = 1 =>
                result.calls[Len(result.calls)] = "vao.__exit__"

\* The draw call itself failed, after the state was configured.
C16_Witness ==
    /\ result.op = "draw_line_strip" /\ ~result.ok
    /\ result.err.kind = "GLException" /\ result.err.which = "vao.render"
    /\ Count(result.calls, "vao.render") = 1
    /\ gl.line_width = 3 /\ gl.vertex_array = 0

\* The settings of the context that a submission configures.
Settings(g) ==
    [line_width |-> g.line_width, point_size |-> g.point_size,
     blend |-> g.blend, blend_func |-> g.blend_func,
     line_smooth |-> g.line_smooth, line_smooth_hint |-> g.line_smooth_hint,
     polygon_smooth_hint |-> g.polygon_smooth_hint]

\* The settings after a submission with the given line width.
Configured(line_width) ==
    [line_width |-> line_width, point_size |-> line_width, blend |-> TRUE,
     blend_func |-> <<"GL_SRC_ALPHA", "GL_ONE_MINUS_SRC_ALPHA">>,
     line_smooth |-> TRUE, line_smooth_hint |-> "GL_NICEST",
     polygon_smooth_hint |-> "GL_NICEST"]

ReachedConfiguration(r) ==
    r.ok \/ (r.err.kind = "GLException" /\ r.err.which = "vao.render")

HasChannels(color) == Len(color) \in {3, 4}

\* What a call with a color of neither 3 nor 4 channels must not have done.
NothingSubmitted(r) ==
    /\ ~r.ok
    /\ Count(r.calls, "shader.buffer") = 0
    /\ Count(r.calls, "vao.render") = 0
    /\ \A c \in StateCalls : Count(r.calls, c) = 0
    /\ r.submitted = <<>>

\* C18 as stated: every drawing call with a color of neither 3 nor 4
\* channels raises InvalidColorFormat, uploads no buffer, changes no setting
\* of the context and issues no draw call.
C18_BadColorRaisesInvalidColorFormat ==
    [][ (IsDraw(result') /\ ~HasChannels(result'.args.color)) =>
          /\ result'.err.kind = "InvalidColorFormat"
          /\ NothingSubmitted(result')
          /\ gl' = gl
      ]_vars

\* C18: every drawing call with a color of neither 3 nor 4 channels raises,
\* uploads no buffer, changes no setting of the context and issues no draw
\* call; it raises InvalidColorFormat, unless it is an lrtb rectangle with
\* left > right or bottom > top, which raises for its bounds first.
C18_BadColorRaisesBeforeUpload ==
    [][ (IsDraw(result') /\ ~HasChannels(result'.args.color)) =>
          LET a == result'.args
              bad_bounds == IsLrtb(result')
                                /\ (a.left > a.right \/ a.bottom > a.top)
          IN  /\ result'.err.kind = (IF bad_bounds THEN "InvalidRectangleBounds"
                                     ELSE "InvalidColorFormat")
              /\ NothingSubmitted(result')
              /\ gl' = gl
      ]_vars

\* An outline arc with a color of two channels, after an earlier call has
\* configured the context.
C18_Witness ==
    /\ result.op = "draw_arc_outline" /\ Len(result.args.color) = 2
    /\ result.err.kind = "InvalidColorFormat"
    /\ result.calls = <<"shader.program">>
    /\ gl.blend /\ gl.line_width = 3

(***************************************************************************)
(* get_four_byte_color                                                     *)
(***************************************************************************)
\* C19: get_four_byte_color gives (C0, C1, C2, 255) for a color C of three
\* channels, C itself for a color of four channels, and raises
\* InvalidColorFormat for every other number of channels; what it returns has
\* four channels and is returned unchanged when converted again.
C19_FourByteColor ==
    (result.op = "get_four_byte_color") =>
        LET C == result.args.color
        IN  /\ Len(C) = 3 =>
                  /\ result.ok
                  /\ result.ret = << <<C[1], C[2], C[3], 255>> >>
            /\ Len(C) = 4 => (result.ok /\ result.ret = <<C>>)
            /\ Len(C) \notin {3, 4} =>
                  /\ ~result.ok
                  /\ result.err.kind = "InvalidColorFormat"
                  /\ result.ret = <<>>
            /\ result.ok =>
                  /\ Len(result.ret[1]) = 4
                  /\ get_four_byte_color(result.ret[1]).ok
                  /\ get_four_byte_color(result.ret[1]).color = result.ret[1]

\* A color of four channels whose alpha is 0 comes back as it is.
C19_Witness ==
    /\ result.op = "get_four_byte_color"
    /\ result.args.color = <<255, 0, 255, 0>>
    /\ result.ret = << <<255, 0, 255, 0>> >>

(***************************************************************************)
(* The draw proxy of a Texture.                                            *)
(***************************************************************************)
HasProxy(texture) == texture._sprite # None \/ texture._sprite_list # None

\* The proxy of a Texture is one Sprite and one SpriteList that holds that
\* Sprite and nothing else.
ProxyWellFormed(texture, objects) ==
    /\ texture._sprite # None /\ texture._sprite_list # None
    /\ texture._sprite.ref \in 1..Len(objects)
    /\ texture._sprite_list.ref \in 1..Len(objects)
    /\ objects[texture._sprite.ref].type = "Sprite"
    /\ objects[texture._sprite_list.ref].type = "SpriteList"
    /\ objects[texture._sprite_list.ref].sprite_list = <<texture._sprite.ref>>

\* C20: no Texture has a Sprite or a SpriteList before its first draw(); a
\* draw() on a Texture without them makes exactly one Sprite and one
\* SpriteList of length 1 that holds it, a draw() on a Texture with them
\* makes no object and keeps both; every draw() sets center, size and angle
\* of the Sprite and then draws the list once, and touches no other Texture.
C20_OneProxyMadeOnFirstDraw ==
    /\ \A t \in 1..Len(heap) : ~HasProxy(heap[t])
    /\ [][ (result'.op = "Texture.draw") =>
             LET self == result'.args.self
                 a == result'.args
                 before == heap[self]
                 after == heap'[self]
             IN  /\ ProxyWellFormed(after, sprites')
                 /\ IF HasProxy(before)
                    THEN /\ after = before
                         /\ Len(sprites') = Len(sprites)
                         /\ result'.calls = <<"SpriteList.draw">>
                    ELSE /\ Len(sprites') = Len(sprites) + 2
                         /\ after._sprite.ref > Len(sprites)
                         /\ after._sprite_list.ref > Len(sprites)
                         /\ Count(result'.calls, "Sprite") = 1
                         /\ Count(result'.calls, "SpriteList") = 1
                 /\ Count(result'.calls, "SpriteList.draw") = 1
                 /\ result'.calls[Len(result'.calls)] = "SpriteList.draw"
                 /\ LET proxy == sprites'[after._sprite.ref]
                    IN  /\ proxy.texture = self
                        /\ proxy.center_x = a.center_x
                        /\ proxy.center_y = a.center_y
                        /\ proxy.width = a.width /\ proxy.height = a.height
                        /\ proxy.angle = a.angle
                        /\ result'.submitted =
                              << [sprite_list |-> after._sprite_list.ref,
                                  sprites |-> <<proxy>>] >>
                 /\ \A t \in 1..Len(heap) : t # self => heap'[t] = heap[t]
                 /\ \A i \in 1..Len(sprites) :
                       i # after._sprite.ref => sprites'[i] = sprites[i]
                 /\ Len(sprites') =
                       2 * Cardinality({t \in 1..Len(heap') : HasProxy(heap'[t])})
      ]_vars

\* A second draw() on a Texture, with another center, when the other Texture
\* has its proxy too.
C20_Witness ==
    /\ result.op = "Texture.draw"
    /\ result.calls = <<"SpriteList.draw">>
    /\ Len(sprites) = 4
    /\ sprites[heap[result.args.self]._sprite.ref].center_x = 0
    /\ \E i \in 1..Len(sprites) :
          sprites[i].type = "Sprite" /\ sprites[i].center_x = 10

(***************************************************************************)
(* Failed loads, the two loaders compared, edges, delegation and scale.    *)
(***************************************************************************)
CropRefused(err) == err.kind = "CropOutOfBounds"

\* C21: a load_texture call that fails with CropOutOfBounds creates no GPU
\* texture and no Texture and leaves the cache as it was, and the failure is
\* not cached: a later call with the same arguments fails with the same
\* error.
C21_RefusedLoadLeavesNothingAndIsRefusedAgain ==
    [][ /\ (IsLoadTexture(result') /\ CropRefused(result'.err)) =>
              /\ texture_cache' = texture_cache
              /\ heap' = heap
              /\ gl_names' = gl_names
              /\ Count(result'.calls, "glGenTextures") = 0
        /\ (/\ IsLoadTexture(result')
            /\ result'.args \in DOMAIN refused
            /\ CropRefused(refused[result'.args])) =>
              /\ ~result'.ok
              /\ result'.err = refused[result'.args]
      ]_vars

\* load_texture(file_name, x, y, width, height, ..) with nothing cached.
UncachedLoadTexture(a, image_location) ==
    load_texture(LoadArgs(a.file_name, image_location, a.mirrored, a.flipped,
                          a.scale),
                 <<>>, heap, gl_names)

\* C22: load_textures on a list of one crop rectangle fails if and only if
\* an uncached load_texture call with that rectangle fails, and with the
\* same error.
C22_OneLocationRefusedAsLoadTextureRefuses ==
    (/\ result.op = "load_textures"
     /\ Len(result.args.image_location_list) = 1
     /\ result.args.image_location_list[1] # <<0, 0, 0, 0>>) =>
        LET single == UncachedLoadTexture(result.args,
                                          result.args.image_location_list[1])
        IN  /\ result.ok = single.ok
            /\ result.err = single.err

\* The corners of the rectangle with the given edges, in the order of the
\* topology: a triangle strip for the filled one, a line loop for the outline.
EdgeCorners(r) ==
    LET a == r.args
        p1 == <<a.left, a.bottom>>
        p2 == <<a.right, a.bottom>>
        p3 == <<a.right, a.top>>
        p4 == <<a.left, a.top>>
    IN  IF r.op = "draw_lrtb_rectangle_filled"
        THEN <<p1, p2, p4, p3>>
        ELSE <<p1, p2, p3, p4>>

\* C23: for integer edges with left <= right and bottom <= top the vertices
\* the lrtb functions submit are the corners (left, bottom), (right, bottom),
\* (right, top), (left, top), for odd and for even right - left and
\* top - bottom.
C23_LrtbSubmitsTheEdges ==
    (IsLrtb(result) /\ result.submitted # <<>>) =>
        result.submitted[1].vertices = EdgeCorners(result)

IsTextured(r) ==
    r.op \in {"draw_texture_rectangle", "draw_xywh_rectangle_textured"}

\* The center the caller of a textured rectangle asked for.
TexturedCenter(r) ==
    IF r.op = "draw_xywh_rectangle_textured"
    THEN <<r.args.bottom_left_x + Half(r.args.width),
           r.args.bottom_left_y + Half(r.args.height)>>
    ELSE <<r.args.center_x, r.args.center_y>>

\* C24: draw_texture_rectangle, and draw_xywh_rectangle_textured through it,
\* hands every argument to the parameter of Texture.draw of the same name:
\* center, width, height, angle, alpha, transparent, repeat_count_x and
\* repeat_count_y arrive unchanged.
C24_ArgumentsArriveUnderTheirNames ==
    IsTextured(result) =>
        LET a == result.args
            got == result.received
        IN  /\ <<got.center_x, got.center_y>> = TexturedCenter(result)
            /\ got.width = a.width /\ got.height = a.height
            /\ got.angle = a.angle /\ got.alpha = a.alpha
            /\ got.transparent = a.transparent
            /\ got.repeat_count_x = a.repeat_count_x
            /\ got.repeat_count_y = a.repeat_count_y

\* The call a at scale 1.
Unscaled(a) == [a EXCEPT !.scale = 1]

\* Width and height of the image a loader cuts out of the file, in pixels.
NativeSize(file_name, rect) ==
    IF rect = <<0, 0, 0, 0>>
    THEN <<source_image_size(file_name).width,
           source_image_size(file_name).height>>
    ELSE <<rect[3], rect[4]>>

\* C25: load_texture and load_textures called with scale s return Textures
\* that report the native width and height of the cropped or whole image
\* times s, and what is sent to the GPU does not depend on s: a call that
\* loads makes the calls of the same load at scale 1.
C25_ReportedSizeIsNativeTimesScale ==
    [][ /\ (IsLoadTexture(result') /\ result'.ok) =>
              LET a == result'.args
                  native == NativeSize(a.file_name,
                                       <<a.x, a.y, a.width, a.height>>)
                  texture == heap'[result'.ret[1]]
              IN  /\ texture.width = native[1] * a.scale
                  /\ texture.height = native[2] * a.scale
                  /\ result'.calls # <<>> =>
                        result'.calls =
                            load_texture(Unscaled(a), <<>>, heap,
                                         gl_names).calls
        /\ (result'.op = "load_textures" /\ result'.ok) =>
              LET a == result'.args
              IN  /\ \A i \in 1..Len(result'.ret) :
                        /\ heap'[result'.ret[i]].width =
                              a.image_location_list[i][3] * a.scale
                        /\ heap'[result'.ret[i]].height =
                              a.image_location_list[i][4] * a.scale
                  /\ result'.calls =
                        load_textures(Unscaled(a), texture_cache, heap,
                                      gl_names).calls
      ]_vars

====
